---- MODULE Spec2Model ----
(***************************************************************************)
(* Model of the automation scripts of Jiffoo:                              *)
(*   docker_launcher.py, scripts/git-commit-push.py, create-base64.py,     *)
(*   complete-readme-update.py, encode-readme.py.                          *)
(* One run of one script is one behaviour; `script` says which script it   *)
(* is.  Everything a script prints, every subprocess.run call, every child *)
(* termination and every sleep is appended to `trace` in program order.    *)
(***************************************************************************)
EXTENDS Integers, Sequences, FiniteSets

VARIABLES script, pc, trace, calls, exit_status, readme, content, encoded, outfile

vars == <<script, pc, trace, calls, exit_status, readme, content, encoded, outfile>>

(* ---------------------------------------------------------------------- *)
(* Bounds and input alphabets                                              *)
(* ---------------------------------------------------------------------- *)
MaxLen == 3

Running == 0 - 1

Missing == <<0 - 1>>

Scripts == {"docker_launcher", "git_commit_push", "create_base64",
            "complete_readme_update", "encode_readme"}

\* a, b, c, LF, CR, the bytes of U+00E9 and U+4E2D, and a byte that never
\* occurs in UTF-8
ByteAlphabet == {97, 98, 99, 10, 13, 195, 169, 228, 184, 173, 255}

RECURSIVE SeqsUpTo(_, _)
SeqsUpTo(S, n) ==
    IF n = 0 THEN {<<>>}
    ELSE LET shorter == SeqsUpTo(S, n - 1)
         IN  shorter \cup {Append(s, x) : s \in shorter, x \in S}

\* what subprocess.run can do: the child terminates with a return code and
\* captured streams, or the call raises
ExitOutcomes(stdouts) ==
    [kind : {"exit"}, rc : {0, 1}, stdout : stdouts, stderr : {"", "text"}]

RaiseOutcome == [kind |-> "raise", rc |-> Running, stdout |-> "", stderr |-> ""]

Outcomes == ExitOutcomes({"", "text"}) \cup {RaiseOutcome}

\* "blank" is whitespace-only output: truthy, but empty after strip()
StatusOutcomes == ExitOutcomes({"", "blank", "text"}) \cup {RaiseOutcome}

(* ---------------------------------------------------------------------- *)
(* Trace events                                                            *)
(* ---------------------------------------------------------------------- *)
Emit(kind, step, text) ==
    [ev |-> "print", kind |-> kind, step |-> step, text |-> text, err |-> "", n |-> 0]

\* subprocess.run was called for the step's command
Run(step) ==
    [ev |-> "run", kind |-> "", step |-> step, text |-> "", err |-> "", n |-> 0]

\* the child terminated: return code n, captured stdout `text`, stderr `err`
Term(step, oc) ==
    [ev |-> "term", kind |-> "", step |-> step, text |-> oc.stdout,
     err |-> oc.stderr, n |-> oc.rc]

\* subprocess.run raised instead of returning
Raise(step) ==
    [ev |-> "raise", kind |-> "", step |-> step, text |-> "", err |-> "", n |-> 0]

Slept(secs) ==
    [ev |-> "sleep", kind |-> "", step |-> "", text |-> "", err |-> "", n |-> secs]

\* a runner that tries a failed command once more
SubprocessRun_retry(step, oc) ==
    IF oc.kind = "raise" THEN <<Run(step), Raise(step), Run(step), Raise(step)>>
    ELSE IF oc.rc # 0 THEN <<Run(step), Term(step, oc), Run(step), Term(step, oc)>>
    ELSE <<Run(step), Term(step, oc)>>

SubprocessRun(step, oc) ==
    IF oc.kind = "raise" THEN <<Run(step), Raise(step)>>
    ELSE <<Run(step), Term(step, oc)>>

(* ---------------------------------------------------------------------- *)
(* docker_launcher.py                                                      *)
(* ---------------------------------------------------------------------- *)
DockerSteps == <<"docker_version", "compose_version", "down", "up_db",
                 "up_backend", "up_frontend", "ps">>

\* a runner whose handler lets the exception through
run_command_result_leaky(oc) ==
    IF oc.kind = "raise" THEN "raised"
    ELSE IF oc.rc = 0 THEN "True" ELSE "False"

\* the value run_command hands to its caller; "raised" would be an exception
\* leaving run_command, which `except Exception` rules out
run_command_result(oc) ==
    IF oc.kind = "raise" THEN "False"
    ELSE IF oc.rc = 0 THEN "True" ELSE "False"

\* a runner that prints the captured stdout even when it is empty
run_command_output_always(step, oc) ==
    IF oc.kind = "raise" THEN <<Emit("exception", step, "e")>>
    ELSE IF oc.rc = 0
         THEN <<Emit("success", step, ""), Emit("stdout", step, oc.stdout)>>
         ELSE <<Emit("failure", step, ""), Emit("stderr", step, oc.stderr)>>

run_command_output(step, oc) ==
    IF oc.kind = "raise" THEN <<Emit("exception", step, "e")>>
    ELSE IF oc.rc = 0
         THEN <<Emit("success", step, "")>>
              \o (IF oc.stdout # "" THEN <<Emit("stdout", step, oc.stdout)>>
                  ELSE <<>>)
         ELSE <<Emit("failure", step, ""), Emit("stderr", step, oc.stderr)>>

run_command(step, oc) ==
    <<Emit("progress", step, "")>>
    \o SubprocessRun(step, oc)
    \o run_command_output(step, oc)

Call(step, oc) ==
    [step |-> step, kind |-> oc.kind, rc |-> oc.rc, ret |-> run_command_result(oc)]

\* `if not run_command(...): [print(hint)]; sys.exit(1)`
CheckedStep(at, step, hint, next) ==
    /\ script = "docker_launcher"
    /\ pc = at
    /\ \E oc \in Outcomes :
         /\ calls' = Append(calls, Call(step, oc))
         /\ IF run_command_result(oc) = "True"
            THEN /\ trace' = trace \o run_command(step, oc)
                 /\ pc' = next
                 /\ exit_status' = exit_status
            ELSE /\ trace' = trace \o run_command(step, oc)
                              \o (IF hint THEN <<Emit("hint", step, "")>> ELSE <<>>)
                 /\ pc' = "exited"
                 /\ exit_status' = 1
    /\ UNCHANGED <<script, readme, content, encoded, outfile>>

\* a bare `run_command(...)` statement: the result is dropped
UncheckedStep(at, step, next, status) ==
    /\ script = "docker_launcher"
    /\ pc = at
    /\ \E oc \in Outcomes :
         /\ calls' = Append(calls, Call(step, oc))
         /\ trace' = trace \o run_command(step, oc)
    /\ pc' = next
    /\ exit_status' = status
    /\ UNCHANGED <<script, readme, content, encoded, outfile>>

Banner ==
    /\ script = "docker_launcher"
    /\ pc = "start"
    /\ trace' = trace \o <<Emit("banner", "", "")>>
    /\ pc' = "docker_version"
    /\ UNCHANGED <<script, calls, exit_status, readme, content, encoded, outfile>>

CheckDocker == CheckedStep("docker_version", "docker_version", TRUE, "compose_version")

CheckCompose == CheckedStep("compose_version", "compose_version", TRUE, "down")

StopContainers == UncheckedStep("down", "down", "up_db", exit_status)

StartDatabase == CheckedStep("up_db", "up_db", FALSE, "sleep15")

Sleep(at, secs, next) ==
    /\ script = "docker_launcher"
    /\ pc = at
    /\ trace' = trace \o <<Emit("waiting", "", ""), Slept(secs)>>
    /\ pc' = next
    /\ UNCHANGED <<script, calls, exit_status, readme, content, encoded, outfile>>

\* main going on to the backend without sleeping
WaitDatabase_nosleep ==
    /\ script = "docker_launcher"
    /\ pc = "sleep15"
    /\ trace' = trace \o <<Emit("waiting", "", "")>>
    /\ pc' = "up_backend"
    /\ UNCHANGED <<script, calls, exit_status, readme, content, encoded, outfile>>

WaitDatabase == Sleep("sleep15", 15, "up_backend")

\* the backend step issuing the frontend command
StartBackend_wrong_command == CheckedStep("up_backend", "up_frontend", FALSE, "sleep20")

StartBackend == CheckedStep("up_backend", "up_backend", FALSE, "sleep20")

WaitBackend == Sleep("sleep20", 20, "up_frontend")

StartFrontend == CheckedStep("up_frontend", "up_frontend", FALSE, "summary")

Summary ==
    /\ script = "docker_launcher"
    /\ pc = "summary"
    /\ trace' = trace \o <<Emit("summary", "", "")>>
    /\ pc' = "ps"
    /\ UNCHANGED <<script, calls, exit_status, readme, content, encoded, outfile>>

\* last statement of main: the interpreter then exits with status 0
ShowStatus == UncheckedStep("ps", "ps", "exited", 0)

(* ---------------------------------------------------------------------- *)
(* scripts/git-commit-push.py                                              *)
(* ---------------------------------------------------------------------- *)
GitSteps == <<"status", "add", "commit", "push_origin", "push_github", "log">>

\* os.chdir raises when the project directory does not exist
Chdir ==
    /\ script = "git_commit_push"
    /\ pc = "start"
    /\ \E ok \in BOOLEAN :
         IF ok THEN /\ pc' = "status"
                    /\ exit_status' = exit_status
                    /\ trace' = trace
               ELSE /\ pc' = "exited"
                    /\ exit_status' = 1
                    /\ trace' = trace \o <<Emit("traceback", "chdir", "e")>>
    /\ UNCHANGED <<script, calls, readme, content, encoded, outfile>>

\* a test of the raw output instead of the stripped one
Strip_identity(s) == s

Strip(s) == IF s = "blank" THEN "" ELSE s

GitStatus ==
    /\ script = "git_commit_push"
    /\ pc = "status"
    /\ \E oc \in StatusOutcomes :
         LET ran == trace \o <<Emit("header", "status", "")>>
                          \o SubprocessRun("status", oc)
         IN  IF oc.kind = "raise"
             THEN /\ trace' = ran \o <<Emit("traceback", "status", "e")>>
                  /\ pc' = "exited"
                  /\ exit_status' = 1
             ELSE LET shown == ran \o <<Emit("stdout", "status",
                                              IF oc.stdout # "" THEN oc.stdout
                                              ELSE "No changes"),
                                        Emit("stderr", "status", oc.stderr)>>
                  IN  IF Strip(oc.stdout) = ""
                      THEN /\ trace' = shown \o <<Emit("nochanges", "status", "")>>
                           /\ pc' = "exited"
                           /\ exit_status' = 0
                      ELSE /\ trace' = shown
                           /\ pc' = "add"
                           /\ exit_status' = exit_status
    /\ UNCHANGED <<script, calls, readme, content, encoded, outfile>>

\* header, subprocess.run, print(result.stdout), print(result.stderr);
\* the return code is never read
GitStep(step, next, prints_stderr) ==
    /\ script = "git_commit_push"
    /\ pc = step
    /\ \E oc \in Outcomes :
         LET ran == trace \o <<Emit("header", step, "")>>
                          \o SubprocessRun(step, oc)
         IN  IF oc.kind = "raise"
             THEN /\ trace' = ran \o <<Emit("traceback", step, "e")>>
                  /\ pc' = "exited"
                  /\ exit_status' = 1
             ELSE /\ trace' = ran \o <<Emit("stdout", step, oc.stdout)>>
                              \o (IF prints_stderr
                                  THEN <<Emit("stderr", step, oc.stderr)>>
                                  ELSE <<>>)
                  /\ pc' = next
                  /\ exit_status' = IF next = "exited" THEN 0 ELSE exit_status
    /\ UNCHANGED <<script, calls, readme, content, encoded, outfile>>

GitAdd == GitStep("add", "commit", TRUE)

GitCommit == GitStep("commit", "push_origin", TRUE)

GitPushOrigin == GitStep("push_origin", "push_github", TRUE)

GitPushGithub == GitStep("push_github", "log", TRUE)

GitLog == GitStep("log", "exited", FALSE)

(* ---------------------------------------------------------------------- *)
(* Reading and encoding the README                                         *)
(*   open(path, 'r', encoding='utf-8').read()                              *)
(*   base64.b64encode(content.encode('utf-8')).decode('ascii')             *)
(* ---------------------------------------------------------------------- *)
NoText == <<0 - 1>>

NoEnc == <<"None">>

Absent == <<"absent">>

OldContent == <<"o", "l", "d">>

Tail2(s, k) == SubSeq(s, k + 1, Len(s))

IsCont(x) == x >= 128 /\ x <= 191

Utf8Width(b1) ==
    IF b1 < 128 THEN 1
    ELSE IF b1 >= 194 /\ b1 <= 223 THEN 2
    ELSE IF b1 >= 224 /\ b1 <= 239 THEN 3
    ELSE IF b1 >= 240 /\ b1 <= 244 THEN 4
    ELSE 0

Utf8CodePoint(b, w) ==
    IF w = 1 THEN b[1]
    ELSE IF w = 2 THEN (b[1] - 192) * 64 + (b[2] - 128)
    ELSE IF w = 3 THEN (b[1] - 224) * 4096 + (b[2] - 128) * 64 + (b[3] - 128)
    ELSE (b[1] - 240) * 262144 + (b[2] - 128) * 4096 + (b[3] - 128) * 64
         + (b[4] - 128)

\* strict UTF-8 decoding: [ok |-> FALSE] is UnicodeDecodeError
RECURSIVE Utf8Decode(_)
Utf8Decode(b) ==
    IF b = <<>> THEN [ok |-> TRUE, text |-> <<>>]
    ELSE LET w == Utf8Width(b[1])
             valid == /\ w > 0
                      /\ Len(b) >= w
                      /\ \A i \in 2..w : IsCont(b[i])
                      /\ (b[1] = 224 => b[2] >= 160)
                      /\ (b[1] = 237 => b[2] <= 159)
                      /\ (b[1] = 240 => b[2] >= 144)
                      /\ (b[1] = 244 => b[2] <= 143)
         IN  IF ~valid THEN [ok |-> FALSE, text |-> <<>>]
             ELSE LET rest == Utf8Decode(Tail2(b, w))
                  IN  IF ~rest.ok THEN [ok |-> FALSE, text |-> <<>>]
                      ELSE [ok |-> TRUE,
                            text |-> <<Utf8CodePoint(b, w)>> \o rest.text]

\* text mode with newline=None: "\r\n" and "\r" are read as "\n"
RECURSIVE UniversalNewlines(_)
UniversalNewlines(t) ==
    IF t = <<>> THEN <<>>
    ELSE IF t[1] = 13
         THEN IF Len(t) >= 2 /\ t[2] = 10
              THEN <<10>> \o UniversalNewlines(Tail2(t, 2))
              ELSE <<10>> \o UniversalNewlines(Tail2(t, 1))
         ELSE <<t[1]>> \o UniversalNewlines(Tail2(t, 1))

\* f.read() of the file: [ok |-> FALSE] when open or decoding raises
ReadText(file) ==
    IF file = Missing THEN [ok |-> FALSE, text |-> <<>>]
    ELSE LET d == Utf8Decode(file)
         IN  IF d.ok THEN [ok |-> TRUE, text |-> UniversalNewlines(d.text)]
             ELSE d

Utf8EncodeChar(cp) ==
    IF cp < 128 THEN <<cp>>
    ELSE IF cp < 2048 THEN <<192 + (cp \div 64), 128 + (cp % 64)>>
    ELSE IF cp < 65536
         THEN <<224 + (cp \div 4096), 128 + ((cp \div 64) % 64), 128 + (cp % 64)>>
    ELSE <<240 + (cp \div 262144), 128 + ((cp \div 4096) % 64),
           128 + ((cp \div 64) % 64), 128 + (cp % 64)>>

RECURSIVE Utf8Encode(_)
Utf8Encode(t) ==
    IF t = <<>> THEN <<>>
    ELSE Utf8EncodeChar(t[1]) \o Utf8Encode(Tail2(t, 1))

B64Alphabet ==
    <<"A", "B", "C", "D", "E", "F", "G", "H", "I", "J", "K", "L", "M",
      "N", "O", "P", "Q", "R", "S", "T", "U", "V", "W", "X", "Y", "Z",
      "a", "b", "c", "d", "e", "f", "g", "h", "i", "j", "k", "l", "m",
      "n", "o", "p", "q", "r", "s", "t", "u", "v", "w", "x", "y", "z",
      "0", "1", "2", "3", "4", "5", "6", "7", "8", "9", "+", "/">>

B64Char(v) == B64Alphabet[v + 1]

RECURSIVE b64encode(_)
b64encode(b) ==
    IF b = <<>> THEN <<>>
    ELSE IF Len(b) = 1
         THEN <<B64Char(b[1] \div 4), B64Char((b[1] % 4) * 16), "=", "=">>
    ELSE IF Len(b) = 2
         THEN <<B64Char(b[1] \div 4),
                B64Char((b[1] % 4) * 16 + (b[2] \div 16)),
                B64Char((b[2] % 16) * 4), "=">>
    ELSE <<B64Char(b[1] \div 4),
           B64Char((b[1] % 4) * 16 + (b[2] \div 16)),
           B64Char((b[2] % 16) * 4 + (b[3] \div 64)),
           B64Char(b[3] % 64)>> \o b64encode(Tail2(b, 3))

\* line "encoded = base64.b64encode(content.encode('utf-8')).decode('ascii')"
EncodeContent(t) == b64encode(Utf8Encode(t))

B64Value(c) == (CHOOSE i \in 1..64 : B64Alphabet[i] = c) - 1

\* standard base64 decoding of well-formed padded text
RECURSIVE b64decode(_)
b64decode(e) ==
    IF e = <<>> THEN <<>>
    ELSE LET v1 == B64Value(e[1])
             v2 == B64Value(e[2])
             first == <<v1 * 4 + (v2 \div 16)>>
         IN  IF e[3] = "=" THEN first
             ELSE LET v3 == B64Value(e[3])
                      second == <<(v2 % 16) * 16 + (v3 \div 4)>>
                  IN  IF e[4] = "=" THEN first \o second
                      ELSE first \o second
                           \o <<(v3 % 4) * 64 + B64Value(e[4])>>
                           \o b64decode(Tail2(e, 4))

\* json.dump(payload, f, indent=2) of the fixed-shape mapping
JsonDump(enc) ==
    <<"{", "message", "docs: complete README update", "content">>
    \o enc \o <<"sha", "ff8d53bc9aa277f697c211fea1d59dd7a237ad43", "}">>

(* ---------------------------------------------------------------------- *)
(* create-base64.py                                                        *)
(* ---------------------------------------------------------------------- *)
\* the script opening its output file before reading its input
CreateRead_openfirst ==
    /\ script = "create_base64"
    /\ pc = "start"
    /\ outfile' = <<>>
    /\ LET r == ReadText(readme)
       IN  IF r.ok
           THEN /\ content' = r.text
                /\ encoded' = EncodeContent(r.text)
                /\ pc' = "open_out"
                /\ UNCHANGED <<trace, exit_status>>
           ELSE /\ trace' = trace \o <<Emit("traceback", "read", "e")>>
                /\ pc' = "exited"
                /\ exit_status' = 1
                /\ UNCHANGED <<content, encoded>>
    /\ UNCHANGED <<script, calls, readme>>

CreateRead ==
    /\ script = "create_base64"
    /\ pc = "start"
    /\ LET r == ReadText(readme)
       IN  IF r.ok
           THEN /\ content' = r.text
                /\ encoded' = EncodeContent(r.text)
                /\ pc' = "open_out"
                /\ UNCHANGED <<trace, exit_status>>
           ELSE /\ trace' = trace \o <<Emit("traceback", "read", "e")>>
                /\ pc' = "exited"
                /\ exit_status' = 1
                /\ UNCHANGED <<content, encoded>>
    /\ UNCHANGED <<script, calls, readme, outfile>>

\* open('github-payload.json', 'w') creates or truncates the file
CreateOpenOut ==
    /\ script = "create_base64"
    /\ pc = "open_out"
    /\ outfile' = <<>>
    /\ pc' = "write_out"
    /\ UNCHANGED <<script, trace, calls, exit_status, readme, content, encoded>>

CreateDump ==
    /\ script = "create_base64"
    /\ pc = "write_out"
    /\ outfile' = JsonDump(encoded)
    /\ trace' = trace \o <<Emit("created", "", ""), Emit("sizes", "", ""),
                           Emit("saved", "", "")>>
    /\ pc' = "exited"
    /\ exit_status' = 0
    /\ UNCHANGED <<script, calls, readme, content, encoded>>

(* ---------------------------------------------------------------------- *)
(* complete-readme-update.py                                               *)
(* ---------------------------------------------------------------------- *)
\* a failed read lands in `except Exception`, which prints the error and
\* returns None; the script then ends normally
CompleteRead ==
    /\ script = "complete_readme_update"
    /\ pc = "start"
    /\ LET r == ReadText(readme)
       IN  IF r.ok
           THEN /\ content' = r.text
                /\ encoded' = EncodeContent(r.text)
                /\ trace' = trace \o <<Emit("read_ok", "", ""),
                                       Emit("sizes", "", ""),
                                       Emit("preview", "", "")>>
                /\ pc' = "open_out"
                /\ exit_status' = exit_status
           ELSE /\ trace' = trace \o <<Emit("error", "read", "e")>>
                /\ pc' = "exited"
                /\ exit_status' = 0
                /\ UNCHANGED <<content, encoded>>
    /\ UNCHANGED <<script, calls, readme, outfile>>

CompleteOpenOut ==
    /\ script = "complete_readme_update"
    /\ pc = "open_out"
    /\ outfile' = <<>>
    /\ pc' = "write_out"
    /\ UNCHANGED <<script, trace, calls, exit_status, readme, content, encoded>>

CompleteWrite ==
    /\ script = "complete_readme_update"
    /\ pc = "write_out"
    /\ outfile' = encoded
    /\ trace' = trace \o <<Emit("saved", "", "")>>
    /\ pc' = "exited"
    /\ exit_status' = 0
    /\ UNCHANGED <<script, calls, readme, content, encoded>>

(* ---------------------------------------------------------------------- *)
(* encode-readme.py                                                        *)
(* ---------------------------------------------------------------------- *)
EncodeRead ==
    /\ script = "encode_readme"
    /\ pc = "start"
    /\ LET r == ReadText(readme)
       IN  IF r.ok
           THEN /\ content' = r.text
                /\ encoded' = EncodeContent(r.text)
                /\ pc' = "print"
                /\ UNCHANGED <<trace, exit_status>>
           ELSE /\ trace' = trace \o <<Emit("traceback", "read", "e")>>
                /\ pc' = "exited"
                /\ exit_status' = 1
                /\ UNCHANGED <<content, encoded>>
    /\ UNCHANGED <<script, calls, readme, outfile>>

EncodePrint ==
    /\ script = "encode_readme"
    /\ pc = "print"
    /\ trace' = trace \o <<Emit("encoded", "", "")>>
    /\ pc' = "exited"
    /\ exit_status' = 0
    /\ UNCHANGED <<script, calls, readme, content, encoded, outfile>>

(* ---------------------------------------------------------------------- *)
Orchestration == {"docker_launcher", "git_commit_push"}

Init ==
    /\ script \in Scripts
    /\ pc = "start"
    /\ trace = <<>>
    /\ calls = <<>>
    /\ exit_status = Running
    /\ readme \in IF script \in Orchestration THEN {Missing}
                  ELSE {Missing} \cup SeqsUpTo(ByteAlphabet, MaxLen)
    /\ content = NoText
    /\ encoded = NoEnc
    /\ outfile \in IF script \in Orchestration \/ script = "encode_readme"
                   THEN {Absent}
                   ELSE {Absent, OldContent}

Next ==
    \/ Banner
    \/ CheckDocker
    \/ CheckCompose
    \/ StopContainers
    \/ StartDatabase
    \/ WaitDatabase
    \/ StartBackend
    \/ WaitBackend
    \/ StartFrontend
    \/ Summary
    \/ ShowStatus
    \/ Chdir
    \/ GitStatus
    \/ GitAdd
    \/ GitCommit
    \/ GitPushOrigin
    \/ GitPushGithub
    \/ GitLog
    \/ CreateRead
    \/ CreateOpenOut
    \/ CreateDump
    \/ CompleteRead
    \/ CompleteOpenOut
    \/ CompleteWrite
    \/ EncodeRead
    \/ EncodePrint

Spec == Init /\ [][Next]_vars

(* ---------------------------------------------------------------------- *)
(* Observations on a run                                                   *)
(* ---------------------------------------------------------------------- *)
Idx == 1..Len(trace)

IsFailure(e) == e.ev = "raise" \/ (e.ev = "term" /\ e.n # 0)

IsRunCommandPrint(e, s) ==
    /\ e.ev = "print"
    /\ e.step = s
    /\ e.kind \in {"success", "stdout", "failure", "stderr", "exception"}

StepsOf(evs) == [i \in 1..Len(evs) |-> evs[i].step]

\* the commands handed to subprocess.run, in order
RunSteps == StepsOf(SelectSeq(trace, LAMBDA e : e.ev = "run"))

\* the step descriptions printed, in order
Described ==
    StepsOf(SelectSeq(trace, LAMBDA e : e.ev = "print"
                                        /\ e.kind \in {"progress", "header"}))

Declared == IF script = "docker_launcher" THEN DockerSteps ELSE GitSteps

DockerIndex ==
    [s \in {DockerSteps[k] : k \in 1..Len(DockerSteps)} |->
        CHOOSE k \in 1..Len(DockerSteps) : DockerSteps[k] = s]

IsPrefix(a, b) == Len(a) <= Len(b) /\ a = SubSeq(b, 1, Len(a))

NoError ==
    \A i \in Idx : ~IsFailure(trace[i])
                   /\ trace[i].kind \notin {"traceback", "error"}

\* every subprocess.run call has returned or raised before anything else
\* happens
NoOverlap ==
    \A i \in Idx : trace[i].ev = "run" =>
        /\ i < Len(trace)
        /\ trace[i + 1].ev \in {"term", "raise"}
        /\ trace[i + 1].step = trace[i].step

SummaryPrinted ==
    IF script = "docker_launcher"
    THEN \E i \in Idx : trace[i] = Emit("summary", "", "")
    ELSE \E i \in Idx : trace[i].ev = "print" /\ trace[i].kind = "stdout"
                        /\ trace[i].step = "log"

StatusBlank ==
    \E i \in Idx : /\ trace[i].ev = "term"
                   /\ trace[i].step = "status"
                   /\ trace[i].text \in {"", "blank"}

StatusReportedChanges ==
    \E i \in Idx : /\ trace[i].ev = "term"
                   /\ trace[i].step = "status"
                   /\ trace[i].text \notin {"", "blank"}

(* ---------------------------------------------------------------------- *)
(* C1: in both orchestration scripts, once a step's command has failed    *)
(* (non-zero exit or exception) the sequence has halted, the failure       *)
(* output carries the captured stderr, and no later command is run.        *)
(* The scripts do not behave so: git-commit-push.py never reads a return   *)
(* code, and docker_launcher.py drops the result of "down".                *)
(* ---------------------------------------------------------------------- *)
C1_FailFast ==
    script \in Orchestration =>
        \A i \in Idx : IsFailure(trace[i]) =>
            /\ pc = "exited"
            /\ \A j \in Idx : j > i => trace[j].ev # "run"
            /\ trace[i].ev = "term" =>
                 \E j \in Idx : /\ j > i
                                /\ trace[j] = Emit("stderr", trace[i].step,
                                                    trace[i].err)

(* ---------------------------------------------------------------------- *)
(* C3: no run of any script in which an error occurred (unreadable input,  *)
(* non-zero exit, spawn failure) ends with exit status 0.                  *)
(* Violated: complete-readme-update.py catches the read error and ends     *)
(* normally; git-commit-push.py ignores return codes.                      *)
(* ---------------------------------------------------------------------- *)
C3_ErrorsExitNonZero ==
    exit_status = 0 => NoError

(* ---------------------------------------------------------------------- *)
(* C9: no command is handed to subprocess.run twice in one run.            *)
(* ---------------------------------------------------------------------- *)
C9_NoRetry ==
    script \in Orchestration =>
        \A i, j \in Idx :
            (i < j /\ trace[i].ev = "run" /\ trace[j].ev = "run")
                => trace[i].step # trace[j].step

C9_Witness ==
    /\ script = "docker_launcher"
    /\ pc = "exited"
    /\ RunSteps = DockerSteps
    /\ \E i \in Idx : IsFailure(trace[i]) /\ trace[i].step = "down"

(* ---------------------------------------------------------------------- *)
(* C2 as stated: in every finished run of an orchestration script in which *)
(* no command failed, all declared steps were run in declaration order,    *)
(* without overlap, their descriptions were printed in that order, the     *)
(* final summary was printed and the exit status is 0.                     *)
(* ---------------------------------------------------------------------- *)
AllStepsInOrder ==
    /\ RunSteps = Declared
    /\ Described = Declared
    /\ NoOverlap
    /\ SummaryPrinted
    /\ exit_status = 0

C2_AllSucceedAsStated ==
    (script \in Orchestration /\ pc = "exited" /\ NoError) => AllStepsInOrder

(* ---------------------------------------------------------------------- *)
(* C2 amended: the same, where for git-commit-push.py the run is one in    *)
(* which `git status --porcelain` reported changes; without changes the    *)
(* script exits 0 after the status step alone.                             *)
(* ---------------------------------------------------------------------- *)
C2_AllSucceed ==
    (/\ script \in Orchestration
     /\ pc = "exited"
     /\ NoError
     /\ script = "git_commit_push" => StatusReportedChanges)
        => AllStepsInOrder

C2_Witness ==
    /\ script = "docker_launcher"
    /\ pc = "exited"
    /\ NoError
    /\ Len(RunSteps) = Len(DockerSteps)

(* ---------------------------------------------------------------------- *)
(* C4: run_command returns to its caller in every case, with True exactly  *)
(* when the child was spawned and terminated with exit code 0, and with    *)
(* False both for a non-zero exit code and for an exception.               *)
(* ---------------------------------------------------------------------- *)
C4_RunCommandResult ==
    \A i \in 1..Len(calls) :
        /\ calls[i].ret \in {"True", "False"}
        /\ calls[i].ret = "True" <=> (calls[i].kind = "exit" /\ calls[i].rc = 0)
        /\ (calls[i].kind = "raise" \/ calls[i].rc # 0) => calls[i].ret = "False"

C4_Witness ==
    /\ \E i \in 1..Len(calls) : calls[i].kind = "raise" /\ calls[i].ret = "False"
    /\ \E i \in 1..Len(calls) : calls[i].kind = "exit" /\ calls[i].rc # 0
                                /\ calls[i].ret = "False"
    /\ \E i \in 1..Len(calls) : calls[i].ret = "True"

(* ---------------------------------------------------------------------- *)
(* C7 as stated: every run_command call prints the progress line before    *)
(* the command is run and exactly one result line after it; success is the *)
(* success line, followed by the captured stdout only when non-empty;      *)
(* failure (either kind) is the failure line followed by the captured      *)
(* stderr; output appears in step order.                                   *)
(* ---------------------------------------------------------------------- *)
NoMoreOutput(k, s) == k > Len(trace) \/ ~IsRunCommandPrint(trace[k], s)

HasEvent(k, e) == k <= Len(trace) /\ trace[k] = e

ProgressBeforeRun(i) ==
    i > 1 /\ trace[i - 1] = Emit("progress", trace[i].step, "")

IsResultLine(e) ==
    e.ev = "print" /\ e.kind \in {"success", "failure", "exception"}

\* one result line per command run
OneResultLineEach ==
    StepsOf(SelectSeq(trace, IsResultLine)) = RunSteps

SuccessOutput(i) ==
    LET s == trace[i].step
        t == trace[i + 1]
    IN  /\ HasEvent(i + 2, Emit("success", s, ""))
        /\ IF t.text # "" THEN /\ HasEvent(i + 3, Emit("stdout", s, t.text))
                               /\ NoMoreOutput(i + 4, s)
           ELSE NoMoreOutput(i + 3, s)

FailureOutput(i) ==
    LET s == trace[i].step
        t == trace[i + 1]
    IN  /\ HasEvent(i + 2, Emit("failure", s, ""))
        /\ HasEvent(i + 3, Emit("stderr", s, t.err))
        /\ NoMoreOutput(i + 4, s)

ExceptionOutput(i) ==
    LET s == trace[i].step
    IN  /\ HasEvent(i + 2, Emit("exception", s, "e"))
        /\ NoMoreOutput(i + 3, s)

\* the events that belong to a step come grouped by step, in declaration
\* order
OutputInStepOrder ==
    LET stepped == SelectSeq(trace, LAMBDA e : e.step # "")
    IN  \A i \in 1..(Len(stepped) - 1) :
            DockerIndex[stepped[i].step] <= DockerIndex[stepped[i + 1].step]

C7_OutputAsStated ==
    script = "docker_launcher" =>
        /\ OutputInStepOrder
        /\ OneResultLineEach
        /\ \A i \in Idx : trace[i].ev = "run" =>
             /\ ProgressBeforeRun(i)
             /\ IF trace[i + 1].ev = "term" /\ trace[i + 1].n = 0
                THEN SuccessOutput(i)
                ELSE FailureOutput(i)

(* ---------------------------------------------------------------------- *)
(* C7 amended: as stated for a child that terminated; when running the     *)
(* command raises, the one result line is the exception line carrying the  *)
(* exception text, and no stderr line follows it.                          *)
(* ---------------------------------------------------------------------- *)
C7_Output ==
    script = "docker_launcher" =>
        /\ OutputInStepOrder
        /\ OneResultLineEach
        /\ \A i \in Idx : trace[i].ev = "run" =>
             /\ ProgressBeforeRun(i)
             /\ IF trace[i + 1].ev = "raise" THEN ExceptionOutput(i)
                ELSE IF trace[i + 1].n = 0 THEN SuccessOutput(i)
                ELSE FailureOutput(i)

C7_Witness ==
    /\ script = "docker_launcher"
    /\ \E i \in Idx : trace[i].ev = "raise"
    /\ \E i \in Idx : trace[i].ev = "term" /\ trace[i].n = 0 /\ trace[i].text = ""
    /\ \E i \in Idx : trace[i].ev = "term" /\ trace[i].n = 0 /\ trace[i].text # ""
    /\ \E i \in Idx : trace[i].ev = "term" /\ trace[i].n # 0 /\ trace[i].err # ""

(* ---------------------------------------------------------------------- *)
(* C5: in the encoding scripts the output file changes only once the       *)
(* README has been read and encoded, and a run whose read failed has ended *)
(* with a message and without touching the output file.                    *)
(* ---------------------------------------------------------------------- *)
Untouched == outfile \in {Absent, OldContent}

AbortMessage ==
    /\ trace # <<>>
    /\ trace[Len(trace)].ev = "print"
    /\ trace[Len(trace)].kind \in {"traceback", "error"}
    /\ trace[Len(trace)].step = "read"

C5_NoPartialOutput ==
    /\ [][outfile' # outfile =>
            /\ ReadText(readme).ok
            /\ content = ReadText(readme).text
            /\ encoded = b64encode(Utf8Encode(content))]_vars
    /\ []((script \notin Orchestration /\ pc # "start" /\ ~ReadText(readme).ok)
            => (pc = "exited" /\ AbortMessage /\ Untouched))

C5_Witness ==
    /\ script = "create_base64"
    /\ pc = "exited"
    /\ readme = <<255>>
    /\ outfile = OldContent
    /\ AbortMessage

(* ---------------------------------------------------------------------- *)
(* C6: decoding the base64 text a script produced gives back the input     *)
(* file byte for byte; the file "abc" encodes to "YWJj" and the empty file *)
(* to the empty text.                                                      *)
(* Violated for files containing a carriage return: the file is read in    *)
(* text mode, which turns "\r\n" and "\r" into "\n" before encoding.       *)
(* ---------------------------------------------------------------------- *)
C6_RoundTrip ==
    encoded # NoEnc =>
        /\ b64decode(encoded) = readme
        /\ readme = <<97, 98, 99>> => encoded = <<"Y", "W", "J", "j">>
        /\ readme = <<>> => encoded = <<>>

(* ---------------------------------------------------------------------- *)
(* C8: in docker_launcher.py the 15 second pause lies between a successful *)
(* "up postgres redis" and the run of "up backend", the 20 second pause    *)
(* between a successful "up backend" and the run of "up frontend admin";   *)
(* after a pause the next step is run unconditionally, and no pause        *)
(* follows a failed step.                                                  *)
(* ---------------------------------------------------------------------- *)
\* the progress line is run_command's first statement, the sleep precedes it
PauseBefore(i, secs) == i > 2 /\ trace[i - 2] = Slept(secs)

\* the sleep at j follows the successful termination of step s, with only
\* printing in between
AfterSuccessOf(j, s) ==
    \E k \in 1..(j - 1) :
        /\ trace[k].ev = "term" /\ trace[k].step = s /\ trace[k].n = 0
        /\ \A m \in (k + 1)..(j - 1) : trace[m].ev = "print"

C8_Pauses ==
    script = "docker_launcher" =>
        /\ \A i \in Idx :
             /\ trace[i] = Run("up_backend") => PauseBefore(i, 15)
             /\ trace[i] = Run("up_frontend") => PauseBefore(i, 20)
             /\ trace[i].ev = "sleep" =>
                  \/ trace[i].n = 15 /\ AfterSuccessOf(i, "up_db")
                  \/ trace[i].n = 20 /\ AfterSuccessOf(i, "up_backend")
        /\ (trace # <<>> /\ trace[Len(trace)] = Slept(15)) => pc = "up_backend"
        /\ (trace # <<>> /\ trace[Len(trace)] = Slept(20)) => pc = "up_frontend"

C8_Witness ==
    /\ script = "docker_launcher"
    /\ pc = "summary"
    /\ \E i \in Idx : trace[i] = Slept(15)
    /\ \E i \in Idx : trace[i] = Slept(20)
    /\ \E i \in Idx : trace[i].ev = "term" /\ trace[i].step = "down"
                      /\ trace[i].n # 0

(* ---------------------------------------------------------------------- *)
(* C10 as stated: in git-commit-push.py an empty or whitespace-only status *)
(* output ends the run with status 0 and nothing else run; a non-empty one *)
(* leads to add, commit, push origin, push github and log all being run,   *)
(* in that order.                                                          *)
(* ---------------------------------------------------------------------- *)
NoChangesExit ==
    StatusBlank => (pc = "exited" /\ exit_status = 0 /\ RunSteps = <<"status">>)

C10_StatusBranchAsStated ==
    script = "git_commit_push" =>
        /\ NoChangesExit
        /\ (pc = "exited" /\ StatusReportedChanges) => RunSteps = GitSteps

(* ---------------------------------------------------------------------- *)
(* C10 amended: with a non-empty status output the five commands are run   *)
(* in that order, whatever their exit codes, up to the first               *)
(* subprocess.run call that raises; the uncaught exception ends the script *)
(* with status 1 and the remaining commands are not run.  When no call     *)
(* raises, all five are run.                                               *)
(* ---------------------------------------------------------------------- *)
C10_StatusBranch ==
    script = "git_commit_push" =>
        /\ NoChangesExit
        /\ IsPrefix(RunSteps, GitSteps)
        /\ \A i \in Idx : trace[i].ev = "raise" =>
             /\ pc = "exited" /\ exit_status = 1
             /\ \A j \in Idx : j > i => trace[j].ev # "run"
        /\ (/\ pc = "exited"
            /\ StatusReportedChanges
            /\ \A i \in Idx : trace[i].ev # "raise") => RunSteps = GitSteps

C10_Witness ==
    /\ script = "git_commit_push"
    /\ pc = "exited"
    /\ StatusReportedChanges
    /\ RunSteps = GitSteps
    /\ \E i \in Idx : trace[i].ev = "term" /\ trace[i].step = "commit"
                      /\ trace[i].n # 0

====
